---------------------------- MODULE Spec2Model ----------------------------
(***************************************************************************)
(* Model of the reconciliation waits and of the cursor-to-window fetcher   *)
(* of the Taikun MCP server.                                               *)
(*                                                                         *)
(*   SpecWait   one call of waitForProject, waitForVirtualClusterReady,    *)
(*              waitForAppReady or of the verification loop of             *)
(*              addServerToProject, against a backend whose answer to      *)
(*              each probe is arbitrary.  Time is counted in seconds       *)
(*              since the wait began.                                      *)
(*   SpecFetch  one call of fetchKubernetesListItems against a backend     *)
(*              that serves cursor-linked pages (SpecFetchFair: the same   *)
(*              with the loop kept running).                               *)
(*   SpecLock   concurrent calls of addServerToProject, with the registry  *)
(*              of per-project locks and a backend that creates the        *)
(*              requested servers in its own time.                         *)
(***************************************************************************)
EXTENDS Integers, Sequences, FiniteSets, TLC

VARIABLES
    mode,         \* which operation this behaviour runs: "wait", "fetch", "lock" or a tool handler
    \* ---- one wait call ----
    kind,         \* "project" | "vcluster" | "app" | "server"
    waitDeleted,  \* args.WaitDeleted / waitDeleted
    count,        \* args.Count of addServerToProject (0 for the other kinds)
    timeout,      \* effective timeout in seconds
    call,         \* the caller of the wait and the timeout argument it was given
    now,          \* seconds since the wait started
    pc,           \* position in the loop
    tickPending,  \* waitForProject: a tick is buffered in ticker.C
    nextTick,     \* waitForProject: time of the ticker's next tick
    outcome,      \* "none" until the call returns
    probes,       \* number of probe calls issued
    lastObs,      \* what the last probe returned
    lastStart,    \* time at which the last probe was started
    probeTime,    \* total time spent inside probe calls
    slowProbes,   \* number of probe calls that took a noticeable time
    allCont,      \* every probe so far showed a found, still converging resource
    priorCont,    \* the same, of the probes before the last one
    \* ---- one fetchKubernetesListItems call ----
    fstate,       \* record of the fetch loop, see FetchInit
    \* ---- concurrent addServerToProject calls ----
    lstate,       \* the lock registry, the calls and the backend, see LockInit
    \* ---- one call of a tool handler ----
    tstate        \* record of the handler's inputs and result, see the Tool* Inits

waitVars == <<kind, waitDeleted, count, timeout, call, now, pc, tickPending, nextTick,
              outcome, probes, lastObs, lastStart, probeTime, slowProbes, allCont,
              priorCont>>

vars == <<mode, waitVars, fstate, lstate, tstate>>

Min(a, b) == IF a <= b THEN a ELSE b

(***************************************************************************)
(* Program constants.                                                      *)
(***************************************************************************)
ProjectPollInterval == 30
ProjectDefaultTimeout == 600
ProjectDefaultDeleteTimeout == 300
VClusterPollInterval == 10
VClusterDefaultTimeout == 900
AppPollInterval == 10
AppDefaultTimeout == 60
AppDefaultDeleteTimeout == 30
WaitForAppDefaultTimeout == 60
WaitForAppDefaultDeleteTimeout == 30
InstallAppDefaultWaitTimeout == 60
InstallAppDocumentedWaitTimeout == 600
ServerPollInterval == 5
ServerDefaultTimeout == 300
DefaultPerPage == 50

PROJECTSTATUS_READY == "Ready"
PROJECTSTATUS_FAILURE == "Failure"
PROJECTHEALTH_HEALTHY == "Healthy"
PROJECTHEALTH_UNHEALTHY == "Unhealthy"

(***************************************************************************)
(* Bounds of the model.                                                    *)
(***************************************************************************)
FastProbe == 4         \* seconds a quick backend call takes
SlowProbe == 35        \* seconds a slow backend call takes
MaxOthers == 1         \* records of other virtual clusters in a list answer
MaxServers == 2        \* servers in a list answer
MaxCount == 2          \* largest args.Count
MaxSlowProbes == 2     \* probe calls of one wait that take a noticeable time
MaxPages == 3          \* distinct pages the backend serves
MaxPageSize == 2       \* items on one page
MaxFetches == 5        \* page fetches followed before the model stops looking
MaxOffset == 4         \* largest offset of a window
MaxLimit == 3          \* largest limit of a window
MaxTotal == 3          \* longest filtered list a client-side window is cut from
MaxListedApps == 2     \* applications the search of installApp lists
MaxInstallProbes == 3  \* probes of installApp's wait that are counted
MaxStrLen == 2         \* longest string handed to createJSONResponse
MaxCalls == 2          \* concurrent addServerToProject calls
MaxProjects == 2       \* project ids the calls are for

\* timeoutSeconds / args.Timeout / args.VerifyTimeoutSeconds as given by the caller
TimeoutArgs == {-1, 0, 7, 30, 31, 91}
ProbeDurations == {0, FastProbe, SlowProbe}

\* HTTP answers: 0 stands for "no response object" (a network failure)
Codes == {0, 100, 200, 404, 500}
Is2xx(code) == code >= 200 /\ code < 300

Statuses == {"Ready", "Failure", "Failed", "Updating"}
Healths == {"Healthy", "Unhealthy", "Unknown"}

SeqsUpTo(S, n) == UNION {[1..k -> S] : k \in 0..n}

NoFetch == [pc |-> "idle"]
NoLock == [pc |-> "idle"]
NoTool == [pc |-> "idle"]
NoCall == [caller |-> "none", arg |-> 0]

NoObs == [err |-> FALSE, code |-> 200, found |-> FALSE, status |-> "",
          health |-> "", matched |-> 0]

(***************************************************************************)
(* Timeouts.                                                               *)
(***************************************************************************)
ProjectTimeout(wd, arg) ==
    LET dflt == IF wd THEN ProjectDefaultDeleteTimeout ELSE ProjectDefaultTimeout
    IN  IF arg > 0 THEN arg ELSE dflt

VClusterTimeout(arg) == IF arg = 0 THEN VClusterDefaultTimeout ELSE arg

AppTimeout(wd, arg) ==
    IF arg = 0
    THEN (IF wd THEN AppDefaultDeleteTimeout ELSE AppDefaultTimeout)
    ELSE arg

ServerTimeout(arg) == IF arg <= 0 THEN ServerDefaultTimeout ELSE arg

\* waitForApp: the timeout it hands to waitForAppReady
waitForAppTimeout(wd, arg) ==
    IF arg = 0
    THEN (IF wd THEN WaitForAppDefaultDeleteTimeout ELSE WaitForAppDefaultTimeout)
    ELSE arg

\* installApp: the waitTimeout it hands to waitForAppReady
installAppWaitTimeout(arg) == IF arg = 0 THEN InstallAppDefaultWaitTimeout ELSE arg

\* the functions that start a wait of kind k
Callers(k, wd) ==
    CASE k = "project"  -> {"waitForProject"}
      [] k = "vcluster" -> {"createVirtualCluster"}
      [] k = "app"      -> IF wd THEN {"waitForApp"} ELSE {"waitForApp", "installApp"}
      [] k = "server"   -> {"addServerToProject"}

\* a variant in which the virtual cluster wait defaults to ten minutes
EffectiveTimeoutShortVCluster(caller, wd, arg) ==
    CASE caller = "waitForProject"       -> ProjectTimeout(wd, arg)
      [] caller = "createVirtualCluster" -> IF arg = 0 THEN 600 ELSE arg
      [] caller = "waitForApp"           -> AppTimeout(wd, waitForAppTimeout(wd, arg))
      [] caller = "installApp"           -> AppTimeout(FALSE, installAppWaitTimeout(arg))
      [] caller = "addServerToProject"   -> ServerTimeout(arg)

\* the timeout of the wait that `caller` starts with timeout argument arg
EffectiveTimeout(caller, wd, arg) ==
    CASE caller = "waitForProject"       -> ProjectTimeout(wd, arg)
      [] caller = "createVirtualCluster" -> VClusterTimeout(arg)
      [] caller = "waitForApp"           -> AppTimeout(wd, waitForAppTimeout(wd, arg))
      [] caller = "installApp"           -> AppTimeout(FALSE, installAppWaitTimeout(arg))
      [] caller = "addServerToProject"   -> ServerTimeout(arg)

EffectiveCount(c) == IF c <= 0 THEN 1 ELSE c

PollInterval(k) ==
    CASE k = "project"  -> ProjectPollInterval
      [] k = "vcluster" -> VClusterPollInterval
      [] k = "app"      -> AppPollInterval
      [] k = "server"   -> ServerPollInterval

(***************************************************************************)
(* checkResponse: non-nil (an error response) for a missing response and   *)
(* for every status outside 2xx.                                           *)
(***************************************************************************)
checkResponse(code) == code = 0 \/ code < 200 \/ code >= 300

(***************************************************************************)
(* waitForProject: one tick of the loop.                                   *)
(* A backend answer is [err, code, data]: data is result.Data, the list    *)
(* filtered by project id.                                                 *)
(***************************************************************************)
ProjectRecords == [status : Statuses, health : Healths]
ProjectAnswers ==
    {a \in [err : BOOLEAN, code : Codes, data : SeqsUpTo(ProjectRecords, 1)] :
        (a.err \/ ~Is2xx(a.code)) => a.data = <<>>}

ProjectObs(a) ==
    [err |-> a.err, code |-> a.code, found |-> Len(a.data) > 0,
     status |-> IF Len(a.data) > 0 THEN a.data[1].status ELSE "",
     health |-> IF Len(a.data) > 0 THEN a.data[1].health ELSE "",
     matched |-> 0]

\* a variant that compares the status with "READY", which the backend never sends
ProjectClassifyUpperCase(wd, a) ==
    IF a.err THEN "TransportError"
    ELSE IF checkResponse(a.code) THEN "TransportError"
    ELSE IF Len(a.data) = 0
         THEN (IF wd THEN "Deleted" ELSE "FailedNotFound")
    ELSE IF wd THEN "continue"
    ELSE IF a.data[1].status = "READY"
            /\ a.data[1].health = PROJECTHEALTH_HEALTHY THEN "Ready"
    ELSE IF a.data[1].status = PROJECTSTATUS_FAILURE
            \/ a.data[1].health = PROJECTHEALTH_UNHEALTHY THEN "Failed"
    ELSE "continue"

\* a variant that takes a resource for failed only when both axes say so
ProjectClassifyFailureAnd(wd, a) ==
    IF a.err THEN "TransportError"
    ELSE IF checkResponse(a.code) THEN "TransportError"
    ELSE IF Len(a.data) = 0
         THEN (IF wd THEN "Deleted" ELSE "FailedNotFound")
    ELSE IF wd THEN "continue"
    ELSE IF a.data[1].status = PROJECTSTATUS_READY
            /\ a.data[1].health = PROJECTHEALTH_HEALTHY THEN "Ready"
    ELSE IF a.data[1].status = PROJECTSTATUS_FAILURE
            /\ a.data[1].health = PROJECTHEALTH_UNHEALTHY THEN "Failed"
    ELSE "continue"

ProjectClassify(wd, a) ==
    IF a.err THEN "TransportError"
    ELSE IF checkResponse(a.code) THEN "TransportError"
    ELSE IF Len(a.data) = 0
         THEN (IF wd THEN "Deleted" ELSE "FailedNotFound")
    ELSE IF wd THEN "continue"
    ELSE IF a.data[1].status = PROJECTSTATUS_READY
            /\ a.data[1].health = PROJECTHEALTH_HEALTHY THEN "Ready"
    ELSE IF a.data[1].status = PROJECTSTATUS_FAILURE
            \/ a.data[1].health = PROJECTHEALTH_UNHEALTHY THEN "Failed"
    ELSE "continue"

(***************************************************************************)
(* waitForVirtualClusterReady: one pass of the loop body.                  *)
(* data is virtualClusterList.Data; a record's name is "mine" when it      *)
(* equals clusterName.  A nil response with a nil error is not an answer   *)
(* (the client returns a response whenever it returns no error).           *)
(***************************************************************************)
OtherCluster == [name |-> "other", status |-> "Ready", health |-> "Healthy"]
VClusterLists ==
    LET others == {[i \in 1..k |-> OtherCluster] : k \in 0..MaxOthers}
        mine == [name : {"mine"}, status : Statuses, health : Healths]
    IN  others \cup {o \o <<m>> : o \in others, m \in mine}
VClusterAnswers ==
    {a \in [err : BOOLEAN, code : Codes, data : VClusterLists] :
        /\ (a.err \/ ~Is2xx(a.code)) => a.data = <<>>
        /\ ~a.err => a.code # 0}

\* index of the first record named clusterName, 0 if there is none
VClusterFind(data) ==
    IF \E i \in 1..Len(data) : data[i].name = "mine"
    THEN CHOOSE i \in 1..Len(data) :
            /\ data[i].name = "mine"
            /\ \A j \in 1..(i - 1) : data[j].name # "mine"
    ELSE 0

VClusterObs(a) ==
    LET i == VClusterFind(a.data)
    IN  [err |-> a.err, code |-> a.code, found |-> i > 0,
         status |-> IF i > 0 THEN a.data[i].status ELSE "",
         health |-> IF i > 0 THEN a.data[i].health ELSE "",
         matched |-> 0]

\* a variant that polls again after a server error
VClusterClassifyRetries(a) ==
    LET i == VClusterFind(a.data)
    IN  IF a.err THEN "TransportError"
        ELSE IF a.code < 200 \/ a.code >= 500 THEN "continue"
        ELSE IF a.code >= 300 THEN "TransportError"
        ELSE IF i = 0 THEN "continue"
        ELSE IF a.data[i].status = "Ready" /\ a.data[i].health = "Healthy" THEN "Ready"
        ELSE IF a.data[i].status = "Failed" \/ a.data[i].health = "Unhealthy" THEN "Failed"
        ELSE "continue"

\* a variant that takes every health other than Healthy for a failure
VClusterClassifyStrictHealth(a) ==
    LET i == VClusterFind(a.data)
    IN  IF a.err THEN "TransportError"
        ELSE IF a.code < 200 \/ a.code >= 300 THEN "TransportError"
        ELSE IF i = 0 THEN "continue"
        ELSE IF a.data[i].status = "Ready" /\ a.data[i].health = "Healthy" THEN "Ready"
        ELSE IF a.data[i].status = "Failed" \/ a.data[i].health # "Healthy" THEN "Failed"
        ELSE "continue"

VClusterClassify(a) ==
    LET i == VClusterFind(a.data)
    IN  IF a.err THEN "TransportError"
        ELSE IF a.code < 200 \/ a.code >= 300 THEN "TransportError"
        ELSE IF i = 0 THEN "continue"
        ELSE IF a.data[i].status = "Ready" /\ a.data[i].health = "Healthy" THEN "Ready"
        ELSE IF a.data[i].status = "Failed" \/ a.data[i].health = "Unhealthy" THEN "Failed"
        ELSE "continue"

(***************************************************************************)
(* fetchProjectAppStatus and one pass of the waitForAppReady loop body.    *)
(* A backend answer is [err, details, code, body]:                         *)
(*   details  "nil" or the typed payload's status ("" when it has none);   *)
(*            not consulted when err is set                                *)
(*   body     "none" (no body), "nostatus", or the place and value of a    *)
(*            status field in the raw text; not consulted when the typed   *)
(*            payload is used                                              *)
(* The client returns an error with every missing response and every       *)
(* status outside 2xx, so an answer without error is a 2xx answer.         *)
(***************************************************************************)
AppBodies ==
    {[at |-> "none", status |-> ""], [at |-> "nostatus", status |-> ""]}
    \cup [at : {"status", "data.status"}, status : {"Ready", "Updating"}]
AppDetails == {"nil", "", "Ready", "Failed", "Updating"}
AppAnswers ==
    {a \in [err : BOOLEAN, details : AppDetails, code : Codes, body : AppBodies] :
        /\ ~a.err => Is2xx(a.code)
        /\ a.err => a.details = "nil"
        /\ (a.code = 0 \/ (~a.err /\ a.details # "nil")) => a.body.at = "none"}

\* returns (status, found, response, err)
fetchProjectAppStatus(a) ==
    IF ~a.err /\ a.details # "nil"
    THEN [status |-> a.details, found |-> TRUE, code |-> a.code, err |-> FALSE]
    ELSE IF a.code # 0 /\ a.code = 404
    THEN [status |-> "", found |-> FALSE, code |-> a.code, err |-> FALSE]
    ELSE IF a.code # 0 /\ a.code >= 300
    THEN [status |-> "", found |-> FALSE, code |-> a.code, err |-> a.err]
    ELSE IF a.code # 0 /\ a.body.at \in {"status", "data.status"}
    THEN [status |-> a.body.status, found |-> TRUE, code |-> a.code, err |-> FALSE]
    ELSE [status |-> "", found |-> FALSE, code |-> a.code, err |-> a.err]

AppObs(a) ==
    LET r == fetchProjectAppStatus(a)
    IN  [err |-> r.err, code |-> r.code, found |-> r.found, status |-> r.status,
         health |-> "", matched |-> 0]

\* a variant that reports a missing application as an error in both modes
AppClassifyNotFoundFails(wd, a) ==
    LET r == fetchProjectAppStatus(a)
    IN  IF r.code # 0 /\ (r.code < 200 \/ r.code >= 300) /\ r.code # 404
        THEN "TransportError"
        ELSE IF r.err THEN "TransportError"
        ELSE IF ~r.found THEN "FailedNotFound"
        ELSE IF wd THEN "continue"
        ELSE IF r.status = "Ready" THEN "Ready"
        ELSE IF r.status = "Failed" THEN "Failed"
        ELSE "continue"

\* a variant that looks at the status in a wait for deletion too
AppClassifyStatusInDeletion(wd, a) ==
    LET r == fetchProjectAppStatus(a)
    IN  IF r.code # 0 /\ (r.code < 200 \/ r.code >= 300) /\ r.code # 404
        THEN "TransportError"
        ELSE IF r.err THEN "TransportError"
        ELSE IF ~r.found THEN (IF wd THEN "Deleted" ELSE "FailedNotFound")
        ELSE IF r.status = "Ready" THEN "Ready"
        ELSE IF r.status = "Failed" THEN "Failed"
        ELSE "continue"

AppClassify(wd, a) ==
    LET r == fetchProjectAppStatus(a)
    IN  IF r.code # 0 /\ (r.code < 200 \/ r.code >= 300) /\ r.code # 404
        THEN "TransportError"
        ELSE IF r.err THEN "TransportError"
        ELSE IF ~r.found THEN (IF wd THEN "Deleted" ELSE "FailedNotFound")
        ELSE IF wd THEN "continue"
        ELSE IF r.status = "Ready" THEN "Ready"
        ELSE IF r.status = "Failed" THEN "Failed"
        ELSE "continue"

(***************************************************************************)
(* addServerToProject: the verification loop.                              *)
(* args.Name is <<"w">>, args.Role "Kubeworker", args.Flavor "m1"; names   *)
(* are sequences of characters so that strings.HasPrefix can be computed.  *)
(***************************************************************************)
ArgName == <<"w">>
ArgRole == "Kubeworker"
ArgFlavor == "m1"

ServerRecords ==
    {[name |-> <<"w">>, role |-> "Kubeworker", flavor |-> "m1", status |-> "Ready"],
     [name |-> <<"w">>, role |-> "Kubeworker", flavor |-> "m1", status |-> "Failure"],
     [name |-> <<"w", "1">>, role |-> "Kubeworker", flavor |-> "m1", status |-> "Ready"],
     [name |-> <<"d">>, role |-> "Kubeworker", flavor |-> "m1", status |-> "Ready"],
     [name |-> <<"w">>, role |-> "Kubemaster", flavor |-> "m1", status |-> "Ready"],
     [name |-> <<"w">>, role |-> "Kubeworker", flavor |-> "m2", status |-> "Ready"]}
ServerAnswers ==
    {a \in [err : BOOLEAN, code : Codes, data : SeqsUpTo(ServerRecords, MaxServers)] :
        (a.err \/ ~Is2xx(a.code)) => a.data = <<>>}

HasPrefix(s, p) == Len(p) <= Len(s) /\ SubSeq(s, 1, Len(p)) = p

\* a variant that matches the name by prefix whatever the count
ServerMatchesByPrefix(s, name, role, flavor, cnt) ==
    /\ (name # <<>>) => HasPrefix(s.name, name)
    /\ ~(role # "" /\ s.role # role)
    /\ ~(flavor # "" /\ s.flavor # flavor)

ServerMatches(s, name, role, flavor, cnt) ==
    /\ (name # <<>>) =>
          /\ ~(cnt = 1 /\ s.name # name)
          /\ ~(cnt > 1 /\ ~HasPrefix(s.name, name))
    /\ ~(role # "" /\ s.role # role)
    /\ ~(flavor # "" /\ s.flavor # flavor)

\* len(matched) after the loop over serversResp.Data
MatchedCount(data, name, role, flavor, cnt) ==
    Cardinality({i \in 1..Len(data) : ServerMatches(data[i], name, role, flavor, cnt)})

ServerObs(a, cnt) ==
    [err |-> a.err, code |-> a.code, found |-> TRUE, status |-> "", health |-> "",
     matched |-> MatchedCount(a.data, ArgName, ArgRole, ArgFlavor, cnt)]

\* a variant that gives up a minute after the deadline
ServerClassifyLateDeadline(a, cnt, t, deadline) ==
    IF a.err THEN "TransportError"
    ELSE IF a.code = 0 THEN "TransportError"
    ELSE IF a.code < 200 \/ a.code >= 300 THEN "TransportError"
    ELSE IF MatchedCount(a.data, ArgName, ArgRole, ArgFlavor, cnt) >= cnt THEN "Ready"
    ELSE IF t > deadline + 60 THEN "TimedOut"
    ELSE "continue"

\* t is time.Now() when the probe has returned, deadline is verifyDeadline
ServerClassify(a, cnt, t, deadline) ==
    IF a.err THEN "TransportError"
    ELSE IF a.code = 0 THEN "TransportError"
    ELSE IF a.code < 200 \/ a.code >= 300 THEN "TransportError"
    ELSE IF MatchedCount(a.data, ArgName, ArgRole, ArgFlavor, cnt) >= cnt THEN "Ready"
    ELSE IF t > deadline THEN "TimedOut"
    ELSE "continue"

(***************************************************************************)
(* What the specification calls a probe that shows a found resource that   *)
(* is still converging ("continue"), and one that shows it ready: the      *)
(* vocabulary of the properties below.                                     *)
(***************************************************************************)
ObsTransport(k, o) ==
    o.err \/ o.code = 0 \/ (~Is2xx(o.code) /\ ~(k = "app" /\ o.code = 404))

ReadySentinel(k) == IF k = "project" THEN PROJECTSTATUS_READY ELSE "Ready"
FailedSentinel(k) == IF k = "project" THEN PROJECTSTATUS_FAILURE ELSE "Failed"

ObsReady(k, cnt, o) ==
    /\ ~ObsTransport(k, o)
    /\ o.found
    /\ CASE k \in {"project", "vcluster"} ->
                o.status = ReadySentinel(k) /\ o.health = "Healthy"
         [] k = "app" -> o.status = "Ready"
         [] k = "server" -> o.matched >= cnt

ObsFailed(k, o) ==
    /\ ~ObsTransport(k, o)
    /\ o.found
    /\ CASE k \in {"project", "vcluster"} ->
                o.status = FailedSentinel(k) \/ o.health = "Unhealthy"
         [] k = "app" -> o.status = "Failed"
         [] k = "server" -> FALSE

ObsContinue(k, wd, cnt, o) ==
    /\ ~ObsTransport(k, o)
    /\ o.found
    /\ wd \/ (~ObsReady(k, cnt, o) /\ ~ObsFailed(k, o))

(***************************************************************************)
(* The wait: state after the preamble of each function.                    *)
(***************************************************************************)
WaitInit ==
    /\ mode = "wait"
    /\ kind \in {"project", "vcluster", "app", "server"}
    /\ waitDeleted \in (IF kind \in {"project", "app"} THEN BOOLEAN ELSE {FALSE})
    /\ count \in (IF kind = "server" THEN {EffectiveCount(c) : c \in 0..MaxCount} ELSE {0})
    /\ \E caller \in Callers(kind, waitDeleted), arg \in TimeoutArgs :
          /\ call = [caller |-> caller, arg |-> arg]
          /\ timeout = EffectiveTimeout(caller, waitDeleted, arg)
    /\ now = 0
    /\ pc = CASE kind = "project" -> "select"
              [] kind \in {"vcluster", "app"} -> "check"
              [] kind = "server" -> "probe"
    /\ tickPending = FALSE
    /\ nextTick = IF kind = "project" THEN ProjectPollInterval ELSE 0
    /\ outcome = "none"
    /\ probes = 0
    /\ lastObs = NoObs
    /\ lastStart = 0
    /\ probeTime = 0
    /\ slowProbes = 0
    /\ allCont = TRUE
    /\ priorCont = TRUE
    /\ fstate = NoFetch
    /\ lstate = NoLock
    /\ tstate = NoTool

\* a variant of Probed that records the outcome and goes on polling
ProbedKeepsPolling(obs, d, cls, next) ==
    /\ probes' = probes + 1
    /\ lastObs' = obs
    /\ lastStart' = now
    /\ now' = now + d
    /\ probeTime' = probeTime + d
    /\ d = 0 \/ slowProbes < MaxSlowProbes
    /\ slowProbes' = IF d = 0 THEN slowProbes ELSE slowProbes + 1
    /\ priorCont' = allCont
    /\ allCont' = (allCont /\ ObsContinue(kind, waitDeleted, count, obs))
    /\ pc' = next
    /\ outcome' = IF cls = "continue" THEN outcome ELSE cls

\* the bookkeeping of one probe call that took d seconds and returned obs,
\* and the loop's reaction to its classification cls: every classification
\* other than "continue" is a return statement of the loop
Probed(obs, d, cls, next) ==
    /\ probes' = probes + 1
    /\ lastObs' = obs
    /\ lastStart' = now
    /\ now' = now + d
    /\ probeTime' = probeTime + d
    /\ d = 0 \/ slowProbes < MaxSlowProbes
    /\ slowProbes' = IF d = 0 THEN slowProbes ELSE slowProbes + 1
    /\ priorCont' = allCont
    /\ allCont' = (allCont /\ ObsContinue(kind, waitDeleted, count, obs))
    /\ IF cls = "continue"
       THEN pc' = next /\ outcome' = outcome
       ELSE pc' = "done" /\ outcome' = cls

\* ---- waitForProject: select over timeoutChan and ticker.C ----
\* blocked in select until the earlier of the next tick and the timeout
waitForProjectBlock ==
    /\ mode = "wait" /\ kind = "project" /\ pc = "select"
    /\ ~tickPending /\ now < timeout
    /\ LET t == Min(nextTick, timeout)
       IN  /\ now' = t
           /\ tickPending' = (nextTick = t)
           /\ nextTick' = IF nextTick = t THEN nextTick + ProjectPollInterval ELSE nextTick
    /\ UNCHANGED <<tstate, lstate, call, mode, kind, waitDeleted, count, timeout, pc, outcome, probes,
                   lastObs, lastStart, probeTime, slowProbes,
                   allCont, priorCont, fstate>>

waitForProjectTimeout ==
    /\ mode = "wait" /\ kind = "project" /\ pc = "select"
    /\ now >= timeout
    /\ outcome' = "TimedOut"
    /\ pc' = "done"
    /\ UNCHANGED <<tstate, lstate, call, mode, kind, waitDeleted, count, timeout, now, tickPending, nextTick,
                   probes, lastObs, lastStart, probeTime, slowProbes,
                   allCont, priorCont, fstate>>

\* ticks that fall due while a probe runs are buffered (at most one)
waitForProjectTick ==
    /\ mode = "wait" /\ kind = "project" /\ pc = "select"
    /\ tickPending
    /\ \E a \in ProjectAnswers, d \in ProbeDurations :
          /\ Probed(ProjectObs(a), d, ProjectClassify(waitDeleted, a), "select")
          /\ tickPending' = (nextTick <= now + d)
          /\ nextTick' = IF nextTick <= now + d
                         THEN nextTick + ProjectPollInterval
                                * (((now + d - nextTick) \div ProjectPollInterval) + 1)
                         ELSE nextTick
    /\ UNCHANGED <<tstate, lstate, call, mode, kind, waitDeleted, count, timeout, fstate>>

\* ---- waitForVirtualClusterReady ----
waitForVirtualClusterReadyTimeout ==
    /\ mode = "wait" /\ kind = "vcluster" /\ pc = "check"
    /\ now > timeout
    /\ outcome' = "TimedOut"
    /\ pc' = "done"
    /\ UNCHANGED <<tstate, lstate, call, mode, kind, waitDeleted, count, timeout, now, tickPending, nextTick,
                   probes, lastObs, lastStart, probeTime, slowProbes,
                   allCont, priorCont, fstate>>

waitForVirtualClusterReadyProbe ==
    /\ mode = "wait" /\ kind = "vcluster" /\ pc = "check"
    /\ ~(now > timeout)
    /\ \E a \in VClusterAnswers, d \in ProbeDurations :
          Probed(VClusterObs(a), d, VClusterClassify(a), "sleep")
    /\ UNCHANGED <<tstate, lstate, call, mode, kind, waitDeleted, count, timeout, tickPending, nextTick, fstate>>

waitForVirtualClusterReadySleep ==
    /\ mode = "wait" /\ kind = "vcluster" /\ pc = "sleep"
    /\ now' = now + VClusterPollInterval
    /\ pc' = "check"
    /\ UNCHANGED <<tstate, lstate, call, mode, kind, waitDeleted, count, timeout, tickPending, nextTick,
                   outcome, probes, lastObs, lastStart, probeTime, slowProbes,
                   allCont, priorCont, fstate>>

\* ---- waitForAppReady ----
waitForAppReadyTimeout ==
    /\ mode = "wait" /\ kind = "app" /\ pc = "check"
    /\ now > timeout
    /\ outcome' = "TimedOut"
    /\ pc' = "done"
    /\ UNCHANGED <<tstate, lstate, call, mode, kind, waitDeleted, count, timeout, now, tickPending, nextTick,
                   probes, lastObs, lastStart, probeTime, slowProbes,
                   allCont, priorCont, fstate>>

waitForAppReadyProbe ==
    /\ mode = "wait" /\ kind = "app" /\ pc = "check"
    /\ ~(now > timeout)
    /\ \E a \in AppAnswers, d \in ProbeDurations :
          Probed(AppObs(a), d, AppClassify(waitDeleted, a), "sleep")
    /\ UNCHANGED <<tstate, lstate, call, mode, kind, waitDeleted, count, timeout, tickPending, nextTick, fstate>>

waitForAppReadySleep ==
    /\ mode = "wait" /\ kind = "app" /\ pc = "sleep"
    /\ now' = now + AppPollInterval
    /\ pc' = "check"
    /\ UNCHANGED <<tstate, lstate, call, mode, kind, waitDeleted, count, timeout, tickPending, nextTick,
                   outcome, probes, lastObs, lastStart, probeTime, slowProbes,
                   allCont, priorCont, fstate>>

\* ---- addServerToProject: verification loop ----
addServerToProjectProbe ==
    /\ mode = "wait" /\ kind = "server" /\ pc = "probe"
    /\ \E a \in ServerAnswers, d \in ProbeDurations :
          Probed(ServerObs(a, count), d, ServerClassify(a, count, now + d, timeout), "sleep")
    /\ UNCHANGED <<tstate, lstate, call, mode, kind, waitDeleted, count, timeout, tickPending, nextTick, fstate>>

addServerToProjectSleep ==
    /\ mode = "wait" /\ kind = "server" /\ pc = "sleep"
    /\ now' = now + ServerPollInterval
    /\ pc' = "probe"
    /\ UNCHANGED <<tstate, lstate, call, mode, kind, waitDeleted, count, timeout, tickPending, nextTick,
                   outcome, probes, lastObs, lastStart, probeTime, slowProbes,
                   allCont, priorCont, fstate>>

WaitNext ==
    \/ waitForProjectBlock
    \/ waitForProjectTimeout
    \/ waitForProjectTick
    \/ waitForVirtualClusterReadyTimeout
    \/ waitForVirtualClusterReadyProbe
    \/ waitForVirtualClusterReadySleep
    \/ waitForAppReadyTimeout
    \/ waitForAppReadyProbe
    \/ waitForAppReadySleep
    \/ addServerToProjectProbe
    \/ addServerToProjectSleep

SpecWait == WaitInit /\ [][WaitNext]_vars

\* the wait is sequential code of a running goroutine: it keeps taking steps;
\* select chooses at random among its ready cases, so the timeout case of
\* waitForProject, ready from the deadline on, is taken in the end
SpecWaitFair ==
    WaitInit /\ [][WaitNext]_vars /\ WF_vars(WaitNext) /\ WF_vars(waitForProjectTimeout)

(***************************************************************************)
(* fetchKubernetesListItems.                                               *)
(* The backend is a table of pages; a page is                              *)
(*   [first, size, hasMore, next]                                          *)
(* with items first .. first+size-1 (an item is named by its position in   *)
(* the backend's sequence), and next the cursor it hands out: 0 for an     *)
(* absent or empty cursor, k for the cursor that fetches page k.  The      *)
(* empty cursor of the first request fetches page 1.  A page is drawn when *)
(* it is first fetched and served unchanged when its cursor is used again. *)
(* Page fetches are counted up to MaxFetches.  A fetch without limit that   *)
(* has collected more items than the backend holds is in a cursor loop     *)
(* with a page that has items: the loop is followed, the items it adds     *)
(* from then on are not recorded.                                          *)
(***************************************************************************)
Range(a, b) == [i \in 1..(b - a + 1) |-> a + i - 1]

PageItems(pg) == Range(pg.first, pg.first + pg.size - 1)

\* the pages of the specification's example: [1..50] with cursor "a", then [51..70]
ExamplePages ==
    <<[first |-> 1, size |-> 50, hasMore |-> TRUE, next |-> 2],
      [first |-> 51, size |-> 20, hasMore |-> FALSE, next |-> 0]>>
ExampleOffsets == {0, 10, 55, 1000}
ExampleLimits == {0, 10, 30}

RECURSIVE TotalSize(_)
TotalSize(pages) ==
    IF pages = <<>> THEN 0
    ELSE pages[Len(pages)].size + TotalSize(SubSeq(pages, 1, Len(pages) - 1))

\* a variant that asks for pages of `limit` items whatever the limit
PerPageKeepsLimit(limit) == limit

\* perPage := limit; if perPage <= 0 { perPage = 50 }
PerPage(limit) == IF limit <= 0 THEN DefaultPerPage ELSE limit

\* a variant that keeps the offset after it has cut into a page
SkipOffsetKeepsOffset(items, remainingOffset) ==
    IF remainingOffset > 0
    THEN IF Len(items) <= remainingOffset
         THEN [items |-> <<>>, remainingOffset |-> remainingOffset - Len(items)]
         ELSE [items |-> SubSeq(items, remainingOffset + 1, Len(items)),
               remainingOffset |-> remainingOffset]
    ELSE [items |-> items, remainingOffset |-> remainingOffset]

\* if remainingOffset > 0 { ... }: the items kept and the offset still to skip
SkipOffset(items, remainingOffset) ==
    IF remainingOffset > 0
    THEN IF Len(items) <= remainingOffset
         THEN [items |-> <<>>, remainingOffset |-> remainingOffset - Len(items)]
         ELSE [items |-> SubSeq(items, remainingOffset + 1, Len(items)),
               remainingOffset |-> 0]
    ELSE [items |-> items, remainingOffset |-> remainingOffset]

\* if int32(len(items)) > needed { items = items[:needed] }
Truncate(items, needed) ==
    IF Len(items) > needed THEN SubSeq(items, 1, needed) ELSE items

\* a variant that follows the cursor although the window is full
StopAfterLastPageOnly(remainingLimit, collected, pg) ==
    ~pg.hasMore \/ pg.next = 0

\* whether the loop ends after a page has been appended
StopAfter(remainingLimit, collected, pg) ==
    \/ remainingLimit > 0 /\ collected >= remainingLimit
    \/ ~pg.hasMore \/ pg.next = 0

FetchInit ==
    /\ mode = "fetch"
    /\ \E pages \in {<<>>, ExamplePages} :
       \E offset \in (IF pages = <<>> THEN -1..MaxOffset ELSE ExampleOffsets) :
       \E limit \in (IF pages = <<>> THEN -1..MaxLimit ELSE ExampleLimits) :
          fstate = [pc |-> "fetch", limit |-> limit, offset |-> offset,
                    perPage |-> PerPage(limit), cursor |-> 0,
                    remainingOffset |-> offset, allItems |-> <<>>,
                    pages |-> pages, fetches |-> 0, last |-> 0, error |-> FALSE]
    /\ lstate = NoLock /\ call = NoCall /\ tstate = NoTool
    /\ kind = "none" /\ waitDeleted = FALSE /\ count = 0 /\ timeout = 0 /\ now = 0
    /\ pc = "idle" /\ tickPending = FALSE /\ nextTick = 0 /\ outcome = "none"
    /\ probes = 0 /\ lastObs = NoObs /\ lastStart = 0 /\ probeTime = 0
    /\ slowProbes = 0 /\ allCont = TRUE /\ priorCont = TRUE

\* the page the backend serves for the cursor: a known page, or a new one
ServedPages(f) ==
    LET t == IF f.cursor = 0 THEN 1 ELSE f.cursor
    IN  IF t <= Len(f.pages)
        THEN {f.pages}
        ELSE {Append(f.pages, [first |-> TotalSize(f.pages) + 1, size |-> n,
                               hasMore |-> h, next |-> c]) :
                 n \in 0..MaxPageSize, h \in BOOLEAN,
                 c \in 0..Min(t + 1, MaxPages)}

\* an unlimited fetch that has collected more items than the backend holds
Overrun(f) == f.limit <= 0 /\ Len(f.allItems) > TotalSize(f.pages)

\* one pass of the loop with a page fetch that succeeds
LoopBody(f, pages) ==
    LET t == IF f.cursor = 0 THEN 1 ELSE f.cursor
        pg == pages[t]
        sk == SkipOffset(PageItems(pg), f.remainingOffset)
        needed == f.limit - Len(f.allItems)
        g == [f EXCEPT !.pages = pages, !.fetches = Min(f.fetches + 1, MaxFetches),
                       !.last = t,
                       !.remainingOffset = sk.remainingOffset]
    IN  IF f.limit > 0 /\ needed <= 0
        THEN [g EXCEPT !.pc = "done"]
        ELSE LET items == IF f.limit > 0 THEN Truncate(sk.items, needed) ELSE sk.items
                 all == IF Overrun(f) THEN f.allItems ELSE f.allItems \o items
             IN  IF StopAfter(f.limit, Len(all), pg)
                 THEN [g EXCEPT !.allItems = all, !.pc = "done"]
                 ELSE [g EXCEPT !.allItems = all, !.cursor = pg.next]

fetchKubernetesListPage ==
    /\ mode = "fetch" /\ fstate.pc = "fetch"
    /\ \E pages \in ServedPages(fstate) : fstate' = LoopBody(fstate, pages)
    /\ UNCHANGED <<tstate, lstate, call, mode, kind, waitDeleted, count, timeout, now, pc, tickPending,
                   nextTick, outcome, probes, lastObs, lastStart, probeTime,
                   slowProbes, allCont, priorCont>>

\* if err != nil { return nil, response, err }
fetchKubernetesListPageError ==
    /\ mode = "fetch" /\ fstate.pc = "fetch"
    /\ fstate' = [fstate EXCEPT !.fetches = Min(fstate.fetches + 1, MaxFetches),
                                !.allItems = <<>>,
                                !.error = TRUE, !.pc = "done"]
    /\ UNCHANGED <<tstate, lstate, call, mode, kind, waitDeleted, count, timeout, now, pc, tickPending,
                   nextTick, outcome, probes, lastObs, lastStart, probeTime,
                   slowProbes, allCont, priorCont>>

FetchNext ==
    \/ fetchKubernetesListPage
    \/ fetchKubernetesListPageError

SpecFetch == FetchInit /\ [][FetchNext]_vars

\* the loop is sequential code of a running goroutine: it keeps taking steps
SpecFetchFair == FetchInit /\ [][FetchNext]_vars /\ WF_vars(FetchNext)

(***************************************************************************)
(* Concurrent addServerToProject calls.                                    *)
(* lstate holds                                                            *)
(*   pc        position of each call                                       *)
(*   pid, cnt  args.ProjectId and the effective count of each call         *)
(*   registry  holder of projectServerAddLocksMu (0: free)                 *)
(*   locks     projectServerAddLocks: project id -> mutex (0: no entry)    *)
(*   held      holder of each mutex (0: free)                              *)
(*   lock      the mutex getProjectServerAddLock returned to each call     *)
(*   ok        result of the map lookup of each call                       *)
(*   accepted  the backend has accepted the call's create command          *)
(*   created   number of the call's servers the backend has created        *)
(*   result    how each call ended: "Ready" (verified), "TimedOut"         *)
(*             (not verified in time) or "TransportError"                  *)
(* All calls ask for servers named ArgName with ArgRole and ArgFlavor; the  *)
(* first call is for project 1; args.Count is 0 or MaxCount.               *)
(***************************************************************************)
Calls == 1..MaxCalls
Projects == 1..MaxProjects
Mutexes == 1..MaxCalls

\* the name the backend gives the i-th of n servers requested as ArgName
Suffixes == <<"1", "2", "3", "4">>
CreatedName(i, n) == IF n = 1 THEN ArgName ELSE ArgName \o <<Suffixes[i]>>

\* the servers the backend has created for call c
ServersOf(l, c) ==
    [i \in 1..l.created[c] |->
        [name |-> CreatedName(i, l.cnt[c]), role |-> ArgRole, flavor |-> ArgFlavor,
         status |-> "Ready", owner |-> c]]

\* serversResp.Data: the servers of project p, those of calls 1..n
RECURSIVE ProjectServers(_, _, _)
ProjectServers(l, p, n) ==
    IF n = 0 THEN <<>>
    ELSE ProjectServers(l, p, n - 1) \o (IF l.pid[n] = p THEN ServersOf(l, n) ELSE <<>>)

LockInit ==
    /\ mode = "lock"
    /\ \E pid \in {f \in [Calls -> Projects] : f[1] = 1}, cnt \in [Calls -> {EffectiveCount(c) : c \in {0, MaxCount}}] :
          lstate = [pc |-> [c \in Calls |-> "start"],
                    pid |-> pid, cnt |-> cnt,
                    registry |-> 0,
                    locks |-> [p \in Projects |-> 0],
                    held |-> [m \in Mutexes |-> 0],
                    lock |-> [c \in Calls |-> 0],
                    ok |-> [c \in Calls |-> FALSE],
                    accepted |-> [c \in Calls |-> FALSE],
                    created |-> [c \in Calls |-> 0],
                    result |-> [c \in Calls |-> "none"]]
    /\ fstate = NoFetch /\ call = NoCall /\ tstate = NoTool
    /\ kind = "none" /\ waitDeleted = FALSE /\ count = 0 /\ timeout = 0 /\ now = 0
    /\ pc = "idle" /\ tickPending = FALSE /\ nextTick = 0 /\ outcome = "none"
    /\ probes = 0 /\ lastObs = NoObs /\ lastStart = 0 /\ probeTime = 0
    /\ slowProbes = 0 /\ allCont = TRUE /\ priorCont = TRUE

\* a variant of the registry that never makes a caller wait
RegistryFreeAlways(l) == TRUE

\* projectServerAddLocksMu can be locked
RegistryFree(l) == l.registry = 0

\* a variant that hands out one mutex for all projects
NewMutexShared(l) == 1

\* lock = &sync.Mutex{}: a mutex that is in no map entry
NewMutex(l) == CHOOSE m \in Mutexes :
                  /\ \A p \in Projects : l.locks[p] # m
                  /\ \A n \in Mutexes : (\A p \in Projects : l.locks[p] # n) => m <= n

\* projectServerAddLocksMu.Lock()
getProjectServerAddLockLock(c) ==
    /\ mode = "lock" /\ lstate.pc[c] = "start"
    /\ RegistryFree(lstate)
    /\ lstate' = [lstate EXCEPT !.registry = c, !.pc[c] = "lookup"]
    /\ UNCHANGED <<mode, waitVars, fstate, tstate>>

\* a variant of the lookup that never finds an entry
getProjectServerAddLockLookupMisses(c) ==
    /\ mode = "lock" /\ lstate.pc[c] = "lookup"
    /\ lstate' = [lstate EXCEPT !.lock[c] = 0, !.ok[c] = FALSE, !.pc[c] = "insert"]
    /\ UNCHANGED <<mode, waitVars, fstate, tstate>>

\* lock, ok := projectServerAddLocks[projectId]
getProjectServerAddLockLookup(c) ==
    /\ mode = "lock" /\ lstate.pc[c] = "lookup"
    /\ LET m == lstate.locks[lstate.pid[c]]
       IN  lstate' = [lstate EXCEPT !.lock[c] = m, !.ok[c] = (m # 0),
                                    !.pc[c] = IF m # 0 THEN "unlock" ELSE "insert"]
    /\ UNCHANGED <<mode, waitVars, fstate, tstate>>

\* if !ok { lock = &sync.Mutex{}; projectServerAddLocks[projectId] = lock }
getProjectServerAddLockInsert(c) ==
    /\ mode = "lock" /\ lstate.pc[c] = "insert"
    /\ LET m == NewMutex(lstate)
       IN  lstate' = [lstate EXCEPT !.lock[c] = m, !.locks[lstate.pid[c]] = m,
                                    !.pc[c] = "unlock"]
    /\ UNCHANGED <<mode, waitVars, fstate, tstate>>

\* return lock, with the deferred projectServerAddLocksMu.Unlock()
getProjectServerAddLockReturn(c) ==
    /\ mode = "lock" /\ lstate.pc[c] = "unlock"
    /\ lstate' = [lstate EXCEPT !.registry = IF lstate.registry = c THEN 0 ELSE lstate.registry,
                                !.pc[c] = "lock"]
    /\ UNCHANGED <<mode, waitVars, fstate, tstate>>

\* lock.Lock()
addServerToProjectLock(c) ==
    /\ mode = "lock" /\ lstate.pc[c] = "lock"
    /\ lstate.held[lstate.lock[c]] = 0
    /\ lstate' = [lstate EXCEPT !.held[lstate.lock[c]] = c, !.pc[c] = "create"]
    /\ UNCHANGED <<mode, waitVars, fstate, tstate>>

\* the role check and ServersCreate: refused (an error response is returned)
\* or accepted, and then the backend owes the call its servers
addServerToProjectCreate(c) ==
    /\ mode = "lock" /\ lstate.pc[c] = "create"
    /\ \E accepted \in BOOLEAN :
          lstate' = IF accepted
                    THEN [lstate EXCEPT !.accepted[c] = TRUE, !.pc[c] = "verify"]
                    ELSE [lstate EXCEPT !.result[c] = "TransportError", !.pc[c] = "return"]
    /\ UNCHANGED <<mode, waitVars, fstate, tstate>>

\* one pass of the verification loop: ServersDetails fails, or lists the
\* project's servers; late is time.Now().After(verifyDeadline)
addServerToProjectVerify(c) ==
    /\ mode = "lock" /\ lstate.pc[c] = "verify"
    /\ \E failed \in BOOLEAN, late \in BOOLEAN :
          LET a == IF failed THEN [err |-> TRUE, code |-> 500, data |-> <<>>]
                   ELSE [err |-> FALSE, code |-> 200,
                         data |-> ProjectServers(lstate, lstate.pid[c], MaxCalls)]
              cls == ServerClassify(a, lstate.cnt[c], IF late THEN 1 ELSE 0, 0)
          IN  lstate' = IF cls = "continue"
                        THEN [lstate EXCEPT !.pc[c] = "sleep"]
                        ELSE [lstate EXCEPT !.result[c] = cls, !.pc[c] = "return"]
    /\ UNCHANGED <<mode, waitVars, fstate, tstate>>

\* time.Sleep(5 * time.Second)
addServerToProjectWait(c) ==
    /\ mode = "lock" /\ lstate.pc[c] = "sleep"
    /\ lstate' = [lstate EXCEPT !.pc[c] = "verify"]
    /\ UNCHANGED <<mode, waitVars, fstate, tstate>>

\* a variant that returns an error response without unlocking
addServerToProjectReturnKeepsLock(c) ==
    /\ mode = "lock" /\ lstate.pc[c] = "return"
    /\ lstate' = [lstate EXCEPT !.held[lstate.lock[c]] =
                                    IF lstate.result[c] = "TransportError" THEN c ELSE 0,
                                !.pc[c] = "done"]
    /\ UNCHANGED <<mode, waitVars, fstate, tstate>>

\* the function returns and the deferred lock.Unlock() runs
addServerToProjectReturn(c) ==
    /\ mode = "lock" /\ lstate.pc[c] = "return"
    /\ lstate' = [lstate EXCEPT !.held[lstate.lock[c]] = 0, !.pc[c] = "done"]
    /\ UNCHANGED <<mode, waitVars, fstate, tstate>>

\* the backend creates one of the servers it has accepted
backendCreatesServer(c) ==
    /\ mode = "lock" /\ lstate.accepted[c] /\ lstate.created[c] < lstate.cnt[c]
    /\ lstate' = [lstate EXCEPT !.created[c] = lstate.created[c] + 1]
    /\ UNCHANGED <<mode, waitVars, fstate, tstate>>

LockNext ==
    \E c \in Calls :
        \/ getProjectServerAddLockLock(c)
        \/ getProjectServerAddLockLookup(c)
        \/ getProjectServerAddLockInsert(c)
        \/ getProjectServerAddLockReturn(c)
        \/ addServerToProjectLock(c)
        \/ addServerToProjectCreate(c)
        \/ addServerToProjectVerify(c)
        \/ addServerToProjectWait(c)
        \/ addServerToProjectReturn(c)
        \/ backendCreatesServer(c)

SpecLock == LockInit /\ [][LockNext]_vars

\* the steps of call c
CallStep(c) ==
    \/ getProjectServerAddLockLock(c)
    \/ getProjectServerAddLockLookup(c)
    \/ getProjectServerAddLockInsert(c)
    \/ getProjectServerAddLockReturn(c)
    \/ addServerToProjectLock(c)
    \/ addServerToProjectCreate(c)
    \/ addServerToProjectVerify(c)
    \/ addServerToProjectWait(c)
    \/ addServerToProjectReturn(c)

\* a pass of the verification loop that returns
VerifyEnds(c) == addServerToProjectVerify(c) /\ lstate'.pc[c] = "return"

\* every call is a running goroutine whose backend calls return, and the
\* verification loop meets its deadline: time.Now().After(verifyDeadline)
\* holds from some pass on
SpecLockFair ==
    /\ LockInit /\ [][LockNext]_vars
    /\ \A c \in Calls : WF_vars(CallStep(c)) /\ SF_vars(VerifyEnds(c))

(***************************************************************************)
(* Properties of the waits (checked under SpecWait).                       *)
(***************************************************************************)
Returned == pc = "done"

\* C1: a wait call produces exactly one outcome: it has returned exactly when
\* it has an outcome, a probe that showed a ready or failed resource or a
\* transport error is the probe that ended it, and once the outcome exists
\* neither the outcome changes nor is another probe issued.
C1_ExactlyOneOutcome ==
    /\ [](Returned <=> outcome # "none")
    /\ []((probes > 0 /\ ~waitDeleted /\ ObsReady(kind, count, lastObs))
            => (Returned /\ outcome = "Ready"))
    /\ []((probes > 0 /\ ~waitDeleted /\ ObsFailed(kind, lastObs))
            => (Returned /\ outcome = "Failed"))
    /\ [][outcome # "none" => (outcome' = outcome /\ probes' = probes)]_vars

C1_Witness == Returned /\ outcome = "Failed" /\ probes >= 2

\* C2: no probe call is started later than (start of the wait + timeout).
C2_NoProbePastDeadline == probes > 0 => lastStart <= timeout

\* C3: in a wait that is not a wait for deletion, for a project, a virtual
\* cluster and an application, a probe that reports the resource as not found
\* ends the wait with the Failed (not found) outcome on that tick.
C3_NotFoundFails ==
    (/\ kind \in {"project", "vcluster", "app"}
     /\ probes > 0 /\ ~waitDeleted
     /\ ~ObsTransport(kind, lastObs) /\ ~lastObs.found)
    => (Returned /\ outcome = "FailedNotFound")

\* C4: in a wait for deletion of a project or an application, a first probe
\* that reports the resource as not found ends the wait with the Deleted
\* outcome, after exactly one probe call.
C4_DeletedOnFirstProbe ==
    (/\ kind \in {"project", "app"}
     /\ waitDeleted /\ probes = 1
     /\ ~ObsTransport(kind, lastObs) /\ ~lastObs.found)
    => (Returned /\ outcome = "Deleted")

C4_Witness ==
    /\ kind = "app" /\ waitDeleted /\ lastObs.code = 404
    /\ Returned /\ outcome = "Deleted" /\ probes = 1

\* C5: a probe that fails at the transport level (a network failure, or a
\* status outside 2xx other than the application probe's 404) ends the wait
\* with the TransportError outcome: the failing probe is the last one.
C5_TransportErrorEndsWait ==
    (probes > 0 /\ ObsTransport(kind, lastObs))
    => (Returned /\ outcome = "TransportError")

C5_Witness ==
    /\ kind = "vcluster" /\ probes >= 2 /\ lastObs.code = 500
    /\ Returned /\ outcome = "TransportError"

\* C6: with a timeout of more than three poll intervals, and probe calls that
\* take no more than one poll interval altogether, the timeout does not end
\* the wait before the third probe, and probes that show [continue, continue,
\* Ready] end it with Ready at exactly 3 probe calls.
C6_ReadyOnThirdProbe ==
    (/\ timeout > 3 * PollInterval(kind)
     /\ probeTime <= PollInterval(kind)
     /\ ~waitDeleted)
    => /\ (Returned /\ outcome = "TimedOut") => probes >= 3
       /\ (probes = 3 /\ priorCont /\ ObsReady(kind, count, lastObs))
             => (Returned /\ outcome = "Ready")

C6_Witness ==
    /\ kind = "project" /\ timeout > 3 * ProjectPollInterval
    /\ probeTime > 0 /\ probeTime <= ProjectPollInterval
    /\ probes = 3 /\ priorCont /\ Returned /\ outcome = "Ready"

\* C7: a wait that times out has made floor(timeout / pollInterval) probe
\* calls, give or take one (stated for probe calls that take no time).
C7_ProbeCountAtTimeout ==
    (Returned /\ outcome = "TimedOut" /\ probeTime = 0)
    => LET n == timeout \div PollInterval(kind)
       IN  probes >= n - 1 /\ probes <= n + 1

CountsAsRequested(s, cnt) ==
    /\ cnt = 1 => s.name = ArgName
    /\ cnt > 1 => HasPrefix(s.name, ArgName)
    /\ s.role = ArgRole
    /\ s.flavor = ArgFlavor

\* C17: the verification of addServerToProject ends with verified = true
\* exactly when a probe lists at least count servers that match the name
\* (exactly for count 1, by prefix for a larger count), the role and the
\* flavor, a count <= 0 standing for 1; a server's status plays no part.
C17_VerifiedByMatchedCount ==
    /\ \A c \in -1..MaxCount :
          /\ c <= 0 => EffectiveCount(c) = 1
          /\ c > 0 => EffectiveCount(c) = c
          /\ \A s \in ServerRecords :
                ServerMatches(s, ArgName, ArgRole, ArgFlavor, EffectiveCount(c))
                    <=> CountsAsRequested(s, EffectiveCount(c))
    /\ (kind = "server" /\ probes > 0 /\ ~ObsTransport(kind, lastObs))
          => ((Returned /\ outcome = "Ready") <=> lastObs.matched >= count)

C17_Witness ==
    /\ kind = "server" /\ count = 2 /\ probes >= 2
    /\ lastObs.matched = 2 /\ Returned /\ outcome = "Ready"

\* C18: an application probe that meets a 404, or a 2xx answer with no
\* status in the typed payload nor in the raw body, reports found = false,
\* and the wait then ends with Deleted in a wait for deletion and with
\* Failed (not found) otherwise, never with a transport error; a status that
\* is only in the raw body is the observed status.
C18_NoStatusIsNotFound ==
    /\ (kind = "app" /\ probes > 0
        /\ (lastObs.code = 404 \/ (Is2xx(lastObs.code) /\ lastObs.status = "")))
          => /\ ~lastObs.found
             /\ Returned
             /\ outcome = (IF waitDeleted THEN "Deleted" ELSE "FailedNotFound")
    /\ (kind = "app" /\ probes = 1)
          => \A a \in AppAnswers :
                (/\ Is2xx(a.code) /\ (a.err \/ a.details = "nil")
                 /\ a.body.at \in {"status", "data.status"})
                => /\ fetchProjectAppStatus(a).found
                   /\ fetchProjectAppStatus(a).status = a.body.status

\* C19: without a timeout override (argument 0) the waits run with the
\* defaults 600 s / 300 s (project, ready / deleted), 900 s (virtual
\* cluster), 60 s / 30 s (application, ready / deleted) and 300 s (server
\* verification); a positive override is the timeout of the call; the polls
\* are 30 s (project ticks), 10 s, 10 s and 5 s apart.
C19_DefaultTimeouts ==
    /\ [](mode = "wait" =>
            /\ call.arg = 0 =>
                  timeout = CASE kind = "project"  -> (IF waitDeleted THEN 300 ELSE 600)
                              [] kind = "vcluster" -> 900
                              [] kind = "app"      -> (IF waitDeleted THEN 30 ELSE 60)
                              [] kind = "server"   -> 300
            /\ call.arg > 0 => timeout = call.arg
            /\ (kind = "project" /\ probes > 0) => lastStart >= 30 * probes)
    /\ [][(pc = "sleep" /\ pc' # "sleep")
            => now' - now = CASE kind = "vcluster" -> 10
                              [] kind = "app"      -> 10
                              [] kind = "server"   -> 5]_vars

C19_Witness ==
    /\ kind = "vcluster" /\ call.arg = 0 /\ timeout = 900
    /\ Returned /\ outcome = "TimedOut" /\ probes > 80

\* C20: installApp with waitForReady and no waitTimeout waits with a timeout
\* of 600 seconds, the default its argument schema documents: it reports a
\* timeout no earlier than 600 seconds after the wait began.
C20_InstallAppWaits600 ==
    (mode = "wait" /\ call.caller = "installApp" /\ call.arg = 0)
    => /\ timeout = InstallAppDocumentedWaitTimeout
       /\ (Returned /\ outcome = "TimedOut") => now >= InstallAppDocumentedWaitTimeout

\* C23: every wait makes its first probe when the call starts, before any
\* sleep or tick, and so a wait returns only after at least one probe, also
\* when its timeout is shorter than one poll interval.
C23_FirstProbeAtStart ==
    mode = "wait" =>
        /\ probes = 1 => lastStart = 0
        /\ (Returned /\ timeout >= 0) => probes >= 1

\* C24: in a wait that is not a wait for deletion, a probe that finds a
\* project or a virtual cluster ends the wait with Ready exactly when the
\* status is the ready sentinel and the health is Healthy, with Failed
\* exactly when the status is the failure sentinel or the health is
\* Unhealthy, and lets it go on otherwise; the two conditions exclude each
\* other.  For an application: Ready exactly for status "Ready", Failed
\* exactly for status "Failed".
C24_TwoAxisClassification ==
    (/\ kind \in {"project", "vcluster", "app"}
     /\ probes > 0 /\ ~waitDeleted
     /\ ~ObsTransport(kind, lastObs) /\ lastObs.found)
    => LET ready == IF kind = "app" THEN lastObs.status = "Ready"
                    ELSE lastObs.status = ReadySentinel(kind) /\ lastObs.health = "Healthy"
           failed == IF kind = "app" THEN lastObs.status = "Failed"
                     ELSE lastObs.status = FailedSentinel(kind)
                            \/ lastObs.health = "Unhealthy"
       IN  /\ ~(ready /\ failed)
           /\ (Returned /\ outcome = "Ready") <=> ready
           /\ (Returned /\ outcome = "Failed") <=> failed
           /\ (~ready /\ ~failed) => outcome \in {"none", "TimedOut"}

C24_Witness ==
    /\ kind = "project" /\ ~waitDeleted /\ probes >= 2
    /\ lastObs.found /\ lastObs.status = PROJECTSTATUS_READY
    /\ lastObs.health = PROJECTHEALTH_UNHEALTHY
    /\ Returned /\ outcome = "Failed"

\* C26: in a wait for deletion, a probe that still finds the project or the
\* application never ends the wait, whatever its status and health: the wait
\* ends only with Deleted, TimedOut or TransportError.
C26_DeletionIgnoresStatus ==
    (kind \in {"project", "app"} /\ waitDeleted)
    => /\ outcome \in {"none", "Deleted", "TimedOut", "TransportError"}
       /\ (probes > 0 /\ ~ObsTransport(kind, lastObs) /\ lastObs.found)
             => outcome \in {"none", "TimedOut"}

C26_Witness ==
    /\ kind = "app" /\ waitDeleted /\ probes >= 2 /\ pc = "sleep"
    /\ lastObs.found /\ lastObs.status = "Failed"

\* C30: every wait returns (checked under SpecWaitFair), for every probe
\* sequence and every timeout argument, no later than one poll interval
\* after the deadline, plus the time spent inside the probe calls.
C30_WaitTerminates ==
    /\ <>Returned
    /\ [](now <= (IF timeout > 0 THEN timeout ELSE 0) + PollInterval(kind) + probeTime)

C30_Witness ==
    /\ kind = "project" /\ Returned /\ outcome = "TimedOut"
    /\ probeTime > 0 /\ now > timeout + ProjectPollInterval

(***************************************************************************)
(* Properties of the paginated fetcher (checked under SpecFetch).          *)
(***************************************************************************)
RECURSIVE Concat(_)
Concat(pages) ==
    IF pages = <<>> THEN <<>>
    ELSE Concat(SubSeq(pages, 1, Len(pages) - 1)) \o PageItems(pages[Len(pages)])

\* the items at positions [offset, offset+limit) of s, to the end when limit is 0
Window(s, offset, limit) ==
    SubSeq(s, offset + 1, IF limit = 0 THEN Len(s) ELSE Min(Len(s), offset + limit))

\* each page hands out the cursor of the next page or none: no cursor repeats
Linear(pages) == \A k \in 1..Len(pages) : pages[k].next \in {0, k + 1}

FetchReturned == mode = "fetch" /\ fstate.pc = "done"

\* C9: for offset >= 0 and limit >= 0 and pages whose cursors do not repeat, a
\* fetch that meets no error returns exactly the items at positions
\* [offset, offset+limit) of the concatenation of the backend's pages (to the
\* end when limit is 0); it stops before the backend's last page only with a
\* full window; an offset at or beyond the item count gives an empty result.
C9_WindowOfConcatenation ==
    (/\ FetchReturned /\ ~fstate.error
     /\ fstate.offset >= 0 /\ fstate.limit >= 0
     /\ Linear(fstate.pages))
    => LET all == Concat(fstate.pages)
           pg == fstate.pages[fstate.last]
       IN  /\ fstate.allItems = Window(all, fstate.offset, fstate.limit)
           /\ (pg.hasMore /\ pg.next # 0)
                 => (fstate.limit > 0 /\ Len(fstate.allItems) = fstate.limit)
           /\ fstate.limit > 0 => Len(fstate.allItems) <= fstate.limit
           /\ fstate.offset >= Len(all) => fstate.allItems = <<>>

C9_Witness ==
    /\ FetchReturned /\ ~fstate.error /\ Linear(fstate.pages)
    /\ fstate.fetches = 2 /\ fstate.offset = 1 /\ fstate.limit = 2
    /\ fstate.allItems = <<2, 3>>
    /\ fstate.pages[2].hasMore /\ fstate.pages[2].next = 3

\* C10: a further page is requested only when the window is not yet full (or
\* limit is 0) and the last page reported hasMore with a non-empty cursor; on
\* the example pages, offset 10 / limit 30 gives [11..40] with 1 page fetch
\* and offset 55 / limit 10 gives [56..65] with 2 page fetches.
C10_NoFetchBeyondWindow ==
    /\ (mode = "fetch" /\ fstate.pc = "fetch" /\ fstate.fetches > 0)
         => LET pg == fstate.pages[fstate.last]
            IN  /\ fstate.limit <= 0 \/ Len(fstate.allItems) < fstate.limit
                /\ pg.hasMore /\ pg.next # 0
    /\ (FetchReturned /\ ~fstate.error /\ fstate.pages = ExamplePages)
         => /\ (fstate.offset = 10 /\ fstate.limit = 30)
                 => (fstate.allItems = Range(11, 40) /\ fstate.fetches = 1)
            /\ (fstate.offset = 55 /\ fstate.limit = 10)
                 => (fstate.allItems = Range(56, 65) /\ fstate.fetches = 2)

C10_Witness ==
    /\ FetchReturned /\ ~fstate.error /\ fstate.pages = ExamplePages
    /\ fstate.offset = 55 /\ fstate.limit = 10
    /\ fstate.allItems = Range(56, 65) /\ fstate.fetches = 2

\* C11: every fetch returns after finitely many page fetches, also when a
\* page reports hasMore together with a cursor that repeats an earlier one,
\* for every window (checked under SpecFetchFair).
C11_FetchTerminates == <>(fstate.pc = "done")

\* C12: a fetch does not return successfully when its last page reported
\* hasMore without a cursor while the window was not yet full: that page is
\* a protocol violation and the fetch returns an error.
C12_EmptyCursorIsAnError ==
    (/\ FetchReturned /\ fstate.last > 0
     /\ fstate.pages[fstate.last].hasMore /\ fstate.pages[fstate.last].next = 0
     /\ (fstate.limit <= 0 \/ Len(fstate.allItems) < fstate.limit))
    => fstate.error

\* C13: with limit = 0 pages of 50 items are requested and the cursor is
\* followed until a page reports no more (or hands out no cursor to follow),
\* and every item of every page after the first `offset` items is returned;
\* with limit > 0 the requested page size is limit.
C13_LimitZeroFetchesAll ==
    /\ mode = "fetch" =>
          /\ fstate.limit = 0 => fstate.perPage = DefaultPerPage
          /\ fstate.limit > 0 => fstate.perPage = fstate.limit
    /\ (/\ FetchReturned /\ ~fstate.error
        /\ fstate.limit = 0 /\ fstate.offset >= 0
        /\ Linear(fstate.pages))
       => LET all == Concat(fstate.pages)
              pg == fstate.pages[fstate.last]
          IN  /\ ~pg.hasMore \/ pg.next = 0
              /\ fstate.last = Len(fstate.pages)
              /\ fstate.fetches = Len(fstate.pages)
              /\ fstate.allItems = SubSeq(all, fstate.offset + 1, Len(all))

C13_Witness ==
    /\ FetchReturned /\ ~fstate.error /\ Linear(fstate.pages)
    /\ fstate.limit = 0 /\ fstate.perPage = DefaultPerPage /\ fstate.offset = 1
    /\ fstate.fetches = 3 /\ fstate.allItems = <<2, 3, 4, 5, 6>>
    /\ ~fstate.pages[3].hasMore

(***************************************************************************)
(* Properties of concurrent addServerToProject calls (checked under        *)
(* SpecLock).                                                              *)
(***************************************************************************)
\* call c is between its lock.Lock() and its return: it is about to issue the
\* create command, is verifying, or is about to return
InSpan(c) == lstate.pc[c] \in {"create", "verify", "sleep", "return"}

InGetLock(c) == lstate.pc[c] \in {"lookup", "insert", "unlock"}

\* C14: two calls for the same project id are never both between lock.Lock()
\* and return: while one is in its create + verify span the other has issued
\* neither its create command nor a probe; both were handed the same mutex.
C14_MutualExclusion ==
    mode = "lock" =>
        \A c, d \in Calls :
            (c # d /\ lstate.pid[c] = lstate.pid[d]) =>
                /\ ~(InSpan(c) /\ InSpan(d))
                /\ (lstate.lock[c] # 0 /\ lstate.lock[d] # 0)
                      => lstate.lock[c] = lstate.lock[d]

C14_Witness ==
    /\ mode = "lock" /\ lstate.pid[1] = lstate.pid[2]
    /\ lstate.pc[1] = "sleep" /\ lstate.pc[2] = "lock"
    /\ lstate.lock[1] = lstate.lock[2] /\ lstate.held[lstate.lock[1]] = 1

\* C15: the registry lock is held only inside getProjectServerAddLock, never
\* by a call that waits for or holds a project's lock; different projects
\* have different mutexes; so a call that finds its project's mutex taken
\* waits for a call of the same project only, and a call's mutex is taken
\* only by calls of its project.
C15_ProjectsDoNotBlockEachOther ==
    mode = "lock" =>
        /\ lstate.registry # 0 => InGetLock(lstate.registry)
        /\ \A p, q \in Projects :
              (p # q /\ lstate.locks[p] # 0) => lstate.locks[p] # lstate.locks[q]
        /\ \A c \in Calls :
              /\ InSpan(c) => lstate.held[lstate.lock[c]] = c
              /\ (lstate.lock[c] # 0 /\ lstate.held[lstate.lock[c]] # 0)
                    => lstate.pid[lstate.held[lstate.lock[c]]] = lstate.pid[c]

C15_Witness ==
    /\ mode = "lock" /\ lstate.pid[1] # lstate.pid[2]
    /\ lstate.pc[1] = "sleep" /\ lstate.pc[2] = "verify"
    /\ lstate.registry = 0

\* C16: a call reports verified = true only when the servers it requested
\* itself exist in the project: the servers of other calls on the project do
\* not count towards its expected count.
C16_NoMisattribution ==
    mode = "lock" =>
        \A c \in Calls :
            lstate.result[c] = "Ready" => lstate.created[c] >= lstate.cnt[c]

\* C27: a call that has returned holds no lock, whatever the path it
\* returned on; a call holds a project's lock only between lock.Lock() and
\* its return, where it does not touch the registry lock; every call that
\* waits for a project's lock acquires it, and every call returns (checked
\* under SpecLockFair).
C27_LockReleasedNoDeadlock ==
    /\ [](\A c \in Calls :
            /\ lstate.pc[c] = "done" => \A m \in Mutexes : lstate.held[m] # c
            /\ (\E m \in Mutexes : lstate.held[m] = c)
                  => (InSpan(c) /\ lstate.registry # c))
    /\ \A c \in Calls : (lstate.pc[c] = "lock") ~> (lstate.pc[c] = "create")
    /\ <>(\A c \in Calls : lstate.pc[c] = "done")

C27_Witness ==
    /\ mode = "lock" /\ lstate.pid[1] = lstate.pid[2]
    /\ lstate.pc[1] = "done" /\ lstate.result[1] = "TransportError"
    /\ lstate.created[1] = 0 /\ ~lstate.accepted[1]
    /\ lstate.pc[2] = "verify" /\ lstate.held[lstate.lock[2]] = 2

\* C28: calls of getProjectServerAddLock for one project id return the same
\* mutex and calls for different ids return different ones, under every
\* interleaving; an entry of the map, once made, is never removed or
\* replaced.
C28_OneLockPerProject ==
    /\ [](mode = "lock" =>
            \A c, d \in Calls :
                (lstate.pc[c] \notin {"start", "lookup", "insert"}
                 /\ lstate.pc[d] \notin {"start", "lookup", "insert"})
                => /\ lstate.lock[c] # 0
                   /\ lstate.lock[c] = lstate.locks[lstate.pid[c]]
                   /\ (lstate.lock[c] = lstate.lock[d]) <=> (lstate.pid[c] = lstate.pid[d]))
    /\ [][mode = "lock" =>
            \A p \in Projects : lstate.locks[p] # 0 => lstate'.locks[p] = lstate.locks[p]]_vars

C28_Witness ==
    /\ mode = "lock" /\ lstate.pid[1] = lstate.pid[2]
    /\ lstate.pc[1] = "lock" /\ lstate.pc[2] = "lock"
    /\ lstate.lock[1] = lstate.lock[2] /\ lstate.lock[1] # 0

(***************************************************************************)
(* Tool handlers that compute their result in one call.  Each is run in a  *)
(* behaviour of its own: tstate holds the arguments and the result.        *)
(***************************************************************************)

\* no wait, fetch or lock call takes part in a tool-handler behaviour
OtherIdle ==
    /\ fstate = NoFetch /\ lstate = NoLock /\ call = NoCall
    /\ kind = "none" /\ waitDeleted = FALSE /\ count = 0 /\ timeout = 0 /\ now = 0
    /\ pc = "idle" /\ tickPending = FALSE /\ nextTick = 0 /\ outcome = "none"
    /\ probes = 0 /\ lastObs = NoObs /\ lastStart = 0 /\ probeTime = 0
    /\ slowProbes = 0 /\ allCont = TRUE /\ priorCont = TRUE

(***************************************************************************)
(* Client-side windowing: listKubernetesResources (kind Namespaces) and    *)
(* listRepositories slice the filtered list by args.Offset and args.Limit  *)
(* (int32, converted to int before the arithmetic, so no sum wraps).       *)
(***************************************************************************)

\* the slice expression s[low:high]: a run-time panic unless 0 <= low <= high <= len(s)
GoSlice(s, low, high) ==
    IF 0 <= low /\ low <= high /\ high <= Len(s)
    THEN [panic |-> FALSE, items |-> SubSeq(s, low + 1, high)]
    ELSE [panic |-> TRUE, items |-> <<>>]

NamespacesWindow(summaries, offset, limit) ==
    IF offset > 0 \/ limit > 0
    THEN LET start == IF offset > Len(summaries) THEN Len(summaries) ELSE offset
             end == IF limit > 0 /\ start + limit < Len(summaries)
                    THEN start + limit ELSE Len(summaries)
         IN  GoSlice(summaries, start, end)
    ELSE [panic |-> FALSE, items |-> summaries]

RepositoriesWindow(repositories, offset, limit) ==
    LET total == Len(repositories)
        start == offset
        end == start + limit
    IN  IF limit > 0 /\ start < total
        THEN GoSlice(repositories, start, IF end > total THEN total ELSE end)
        ELSE IF start >= total
             THEN [panic |-> FALSE, items |-> <<>>]
             ELSE [panic |-> FALSE, items |-> repositories]

\* the filtered list (in the order the handler built it), and the window asked for
WindowInit ==
    /\ mode = "window"
    /\ \E total \in 0..MaxTotal, offset \in -1..MaxOffset, limit \in -1..MaxLimit :
          tstate = [pc |-> "call", tool |-> "none", list |-> Range(1, total),
                    offset |-> offset, limit |-> limit,
                    panic |-> FALSE, items |-> <<>>]
    /\ OtherIdle

listKubernetesResources ==
    /\ mode = "window" /\ tstate.pc = "call"
    /\ LET r == NamespacesWindow(tstate.list, tstate.offset, tstate.limit)
       IN  tstate' = [tstate EXCEPT !.pc = "done", !.tool = "listKubernetesResources",
                                    !.panic = r.panic, !.items = r.items]
    /\ UNCHANGED <<mode, waitVars, fstate, lstate>>

listRepositories ==
    /\ mode = "window" /\ tstate.pc = "call"
    /\ LET r == RepositoriesWindow(tstate.list, tstate.offset, tstate.limit)
       IN  tstate' = [tstate EXCEPT !.pc = "done", !.tool = "listRepositories",
                                    !.panic = r.panic, !.items = r.items]
    /\ UNCHANGED <<mode, waitVars, fstate, lstate>>

WindowNext == listKubernetesResources \/ listRepositories

SpecWindow == WindowInit /\ [][WindowNext]_vars

\* C29: the client-side window of listKubernetesResources (Namespaces) and of
\* listRepositories never slices out of range, whatever the offset and the
\* limit, and for an offset >= 0 and a limit >= 0 it is the items at positions
\* [offset, offset+limit) of the filtered list, to the end when limit is 0
\* (so an offset at or beyond the end gives the empty list).
C29_ClientWindow ==
    (mode = "window" /\ tstate.pc = "done") =>
        /\ ~tstate.panic
        /\ (tstate.offset >= 0 /\ tstate.limit >= 0)
              => tstate.items = Window(tstate.list, tstate.offset, tstate.limit)


(***************************************************************************)
(* installApp: install, look the new application up by name and namespace  *)
(* when args.WaitForReady is set, wait for it with waitForAppReady, and     *)
(* build the InstallAppResponse.  args.Name is "app", args.Namespace "ns". *)
(***************************************************************************)
InstallWaitTimeouts == {-1, 0, 7}
InstallProbeDurations == {0, FastProbe}

\* what ProjectappList(...).Search(args.Name) answers: the i-th application has id 6 + i
ListedApps == [name : {"app", "app-old"}, namespace : {"ns", "other"}]
SearchAnswers ==
    {a \in [err : BOOLEAN, data : SeqsUpTo(ListedApps, MaxListedApps)] :
        a.err => a.data = <<>>}

\* the id of the first listed application with the name and the namespace, or 0
FindProjectAppID(a) ==
    LET hits == {i \in 1..Len(a.data) :
                    a.data[i].name = "app" /\ a.data[i].namespace = "ns"}
    IN  IF a.err \/ hits = {} THEN 0
        ELSE 6 + (CHOOSE i \in hits : \A j \in hits : i <= j)

NoResult == [kind |-> "none", status |-> "", message |-> ""]

\* responseData, with the message resultMsg was given
InstallAppResponse(waitForReady, message) ==
    [kind |-> "InstallAppResponse",
     status |-> IF waitForReady THEN "ready" ELSE "initiated",
     message |-> message]

InstallInit ==
    /\ mode = "install"
    /\ \E w \in BOOLEAN, t \in InstallWaitTimeouts :
          tstate = [pc |-> "start", waitForReady |-> w, waitTimeout |-> t,
                    projectAppID |-> 0, timeout |-> 0, now |-> 0,
                    sawReady |-> FALSE, probes |-> 0, result |-> NoResult]
    /\ OtherIdle

\* ProjectappInstall, the search for the new application, and the branch
\* that does not wait
installApp ==
    /\ mode = "install" /\ tstate.pc = "start"
    /\ \E err \in BOOLEAN, code \in Codes, a \in SearchAnswers :
          IF err
          THEN tstate' = [tstate EXCEPT !.pc = "done",
                             !.result = [kind |-> "ErrorResponse", status |-> "",
                                         message |-> "createError"]]
          ELSE IF checkResponse(code)
          THEN tstate' = [tstate EXCEPT !.pc = "done",
                             !.result = [kind |-> "text", status |-> "",
                                         message |-> "checkResponse"]]
          ELSE LET id == IF tstate.waitForReady THEN FindProjectAppID(a) ELSE 0
               IN  IF tstate.waitForReady /\ id > 0
                   THEN tstate' = [tstate EXCEPT !.pc = "check", !.projectAppID = id,
                                      !.timeout = AppTimeout(FALSE,
                                          installAppWaitTimeout(tstate.waitTimeout))]
                   ELSE tstate' = [tstate EXCEPT !.pc = "done", !.projectAppID = id,
                                      !.result = InstallAppResponse(tstate.waitForReady,
                                                                    "initiated")]
    /\ UNCHANGED <<mode, waitVars, fstate, lstate>>

\* waitForAppReady(client, projectAppID, waitTimeout, false): the deadline has passed
installAppWaitTimedOut ==
    /\ mode = "install" /\ tstate.pc = "check"
    /\ tstate.now > tstate.timeout
    /\ tstate' = [tstate EXCEPT !.pc = "done",
                     !.result = [kind |-> "ErrorResponse", status |-> "",
                                 message |-> "failed during wait"]]
    /\ UNCHANGED <<mode, waitVars, fstate, lstate>>

\* one probe of the wait, and what installApp returns when the wait ends on it
installAppWaitProbe ==
    /\ mode = "install" /\ tstate.pc = "check"
    /\ ~(tstate.now > tstate.timeout)
    /\ \E a \in AppAnswers, d \in InstallProbeDurations :
          LET cls == AppClassify(FALSE, a)
              t == [tstate EXCEPT !.now = @ + d, !.probes = Min(@ + 1, MaxInstallProbes)]
          IN  tstate' =
                 IF cls = "continue" THEN [t EXCEPT !.pc = "sleep"]
                 ELSE IF cls = "Ready"
                 THEN [t EXCEPT !.pc = "done", !.sawReady = TRUE,
                          !.result = InstallAppResponse(tstate.waitForReady, "ready")]
                 ELSE [t EXCEPT !.pc = "done",
                          !.result = [kind |-> "ErrorResponse", status |-> "",
                                      message |-> "failed during wait"]]
    /\ UNCHANGED <<mode, waitVars, fstate, lstate>>

installAppWaitSleep ==
    /\ mode = "install" /\ tstate.pc = "sleep"
    /\ tstate' = [tstate EXCEPT !.pc = "check", !.now = @ + AppPollInterval]
    /\ UNCHANGED <<mode, waitVars, fstate, lstate>>

InstallNext ==
    installApp \/ installAppWaitTimedOut \/ installAppWaitProbe \/ installAppWaitSleep

SpecInstall == InstallInit /\ [][InstallNext]_vars

\* C25: installApp reports status "ready" only if a probe of the installed
\* application observed status Ready during the call; in particular, when
\* waitForReady is set but the application was not found by name and
\* namespace, so that no wait was made, the result does not say "ready".
C25_ReadyOnlyIfObserved ==
    (mode = "install" /\ tstate.pc = "done" /\ tstate.result.status = "ready")
        => tstate.sawReady


(***************************************************************************)
(* Tool responses.  A Go string is a sequence of characters, of which the  *)
(* model has a plain one ("a"), the ones encoding/json escapes (the quote,  *)
(* the backslash, "<", the line feed), a byte that is not valid UTF-8      *)
(* ("0xFF") and the replacement character U+FFFD.  A JSON text is the      *)
(* sequence of symbols json.Marshal writes: the structural characters, the *)
(* string delimiter "quote", the characters of the strings with their      *)
(* escapes ("backslash" followed by what is escaped), and, each as one     *)
(* symbol, the literals true and false, the digits of a number and the     *)
(* names of the struct tags.                                               *)
(***************************************************************************)
Chars == {"a", "quote", "backslash", "<", "LF", "0xFF", "U+FFFD"}
Strings == SeqsUpTo(Chars, MaxStrLen)
ShortStrings == SeqsUpTo(Chars, 1)

ValidUTF8(s) == \A i \in 1..Len(s) : s[i] # "0xFF"

\* a variant that writes every character as it is
EscapeNothing(c) == <<c>>

\* what encoding/json writes for one character of a string
Escape(c) ==
    CASE c = "quote"     -> <<"backslash", "quote">>
      [] c = "backslash" -> <<"backslash", "backslash">>
      [] c = "<"         -> <<"backslash", "u003c">>
      [] c = "LF"        -> <<"backslash", "n">>
      [] c = "0xFF"      -> <<"backslash", "ufffd">>
      [] OTHER           -> <<c>>

RECURSIVE EscapeAll(_)
EscapeAll(s) == IF s = <<>> THEN <<>> ELSE Escape(Head(s)) \o EscapeAll(Tail(s))

MarshalString(s) == <<"quote">> \o EscapeAll(s) \o <<"quote">>
MarshalBool(b) == IF b THEN <<"true">> ELSE <<"false">>
MarshalKey(name) == <<"quote", name, "quote", ":">>

\* the values handed to createJSONResponse
SuccessResponse(message, success) ==
    [type |-> "SuccessResponse", message |-> message, success |-> success]
ErrorResponse(error, details) ==
    [type |-> "ErrorResponse", error |-> error, details |-> details]
ProjectStatusResponse(id, name, status, health, cloudType) ==
    [type |-> "ProjectStatusResponse", id |-> id, name |-> name, status |-> status,
     health |-> health, cloudType |-> cloudType]
\* a value json.Marshal rejects (a channel, a function, a NaN)
Unserialisable == [type |-> "unsupported"]

\* json.Marshal(data): (jsonData, err)
Marshal(v) ==
    CASE v.type = "SuccessResponse" ->
           [err |-> FALSE,
            text |-> <<"{">> \o MarshalKey("message") \o MarshalString(v.message)
                     \o <<",">> \o MarshalKey("success") \o MarshalBool(v.success)
                     \o <<"}">>]
      [] v.type = "ErrorResponse" ->
           [err |-> FALSE,
            text |-> <<"{">> \o MarshalKey("error") \o MarshalString(v.error)
                     \o (IF v.details = <<>> THEN <<>>
                         ELSE <<",">> \o MarshalKey("details") \o MarshalString(v.details))
                     \o <<"}">>]
      [] v.type = "ProjectStatusResponse" ->
           [err |-> FALSE,
            text |-> <<"{">> \o MarshalKey("id") \o <<v.id>>
                     \o <<",">> \o MarshalKey("name") \o MarshalString(v.name)
                     \o <<",">> \o MarshalKey("status") \o MarshalString(v.status)
                     \o <<",">> \o MarshalKey("health") \o MarshalString(v.health)
                     \o <<",">> \o MarshalKey("cloudType") \o MarshalString(v.cloudType)
                     \o <<"}">>]
      [] OTHER -> [err |-> TRUE, text |-> <<>>]

\* text that needs no escape: a run of letters, digits and blanks
PlainText == <<"a">>

NewTextContent(text) == [type |-> "text", text |-> text]
NewToolResponse(content) == [content |-> <<content>>]

createJSONResponse(data) ==
    LET m == Marshal(data)
        jsonData == IF m.err THEN Marshal(ErrorResponse(PlainText, <<>>)).text ELSE m.text
    IN  NewToolResponse(NewTextContent(jsonData))

\* taikungoclient.CreateError gives the error its text
createError(errText) == createJSONResponse(ErrorResponse(errText, <<>>))

\* the text of checkResponse's response and of the handlers' own fmt.Sprintf responses
SprintfResponse(arg) == NewToolResponse(NewTextContent(PlainText \o arg))

(***************************************************************************)
(* json.Unmarshal of a text into a struct.                                 *)
(***************************************************************************)
Digits == {"1", "2"}
Unescapes == {"quote", "backslash", "n", "u003c", "ufffd"}
Unescape(e) ==
    CASE e = "quote"     -> "quote"
      [] e = "backslash" -> "backslash"
      [] e = "n"         -> "LF"
      [] e = "u003c"     -> "<"
      [] e = "ufffd"     -> "U+FFFD"

ParseFailed == [ok |-> FALSE, value |-> <<>>, next |-> 0]

\* the characters of a string from position i, after the opening quote
RECURSIVE ScanString(_, _, _)
ScanString(t, i, acc) ==
    IF i > Len(t) THEN ParseFailed
    ELSE IF t[i] = "quote" THEN [ok |-> TRUE, value |-> acc, next |-> i + 1]
    ELSE IF t[i] = "backslash"
    THEN IF i + 1 <= Len(t) /\ t[i + 1] \in Unescapes
         THEN ScanString(t, i + 2, Append(acc, Unescape(t[i + 1])))
         ELSE ParseFailed
    ELSE IF t[i] = "LF" THEN ParseFailed
    ELSE IF t[i] = "0xFF" THEN ScanString(t, i + 1, Append(acc, "U+FFFD"))
    ELSE ScanString(t, i + 1, Append(acc, t[i]))

\* a string, true, false or a number at position i
ParseValue(t, i) ==
    IF i > Len(t) THEN ParseFailed
    ELSE IF t[i] = "quote"
    THEN LET r == ScanString(t, i + 1, <<>>)
         IN  [ok |-> r.ok, value |-> [kind |-> "string", v |-> r.value], next |-> r.next]
    ELSE IF t[i] \in {"true", "false"}
    THEN [ok |-> TRUE, value |-> [kind |-> "bool", v |-> t[i] = "true"], next |-> i + 1]
    ELSE IF t[i] \in Digits
    THEN [ok |-> TRUE, value |-> [kind |-> "number", v |-> t[i]], next |-> i + 1]
    ELSE ParseFailed

\* the members of an object from position i; obj maps the names read so far
RECURSIVE ParseMembers(_, _, _)
ParseMembers(t, i, obj) ==
    IF i > Len(t) \/ t[i] # "quote" THEN ParseFailed
    ELSE LET k == ScanString(t, i + 1, <<>>)
         IN  IF ~k.ok \/ k.next > Len(t) \/ t[k.next] # ":" THEN ParseFailed
             ELSE LET v == ParseValue(t, k.next + 1)
                      o == [n \in DOMAIN obj \cup {k.value} |->
                               IF n = k.value THEN v.value ELSE obj[n]]
                  IN  IF ~v.ok \/ v.next > Len(t) THEN ParseFailed
                      ELSE IF t[v.next] = "," THEN ParseMembers(t, v.next + 1, o)
                      ELSE IF t[v.next] = "}" /\ v.next = Len(t)
                      THEN [ok |-> TRUE, value |-> o, next |-> v.next + 1]
                      ELSE ParseFailed

NoMembers == [n \in {} |-> 0]

ParseObject(t) ==
    IF Len(t) < 2 \/ t[1] # "{" THEN ParseFailed
    ELSE IF t[2] = "}"
    THEN (IF Len(t) = 2 THEN [ok |-> TRUE, value |-> NoMembers, next |-> 3]
          ELSE ParseFailed)
    ELSE ParseMembers(t, 2, NoMembers)

\* the field tagged name: its zero value when the object has no such member
Field(obj, name, want, zero) ==
    IF <<name>> \in DOMAIN obj
    THEN [ok |-> obj[<<name>>].kind = want, v |-> obj[<<name>>].v]
    ELSE [ok |-> TRUE, v |-> zero]

\* json.Unmarshal(text, &result) for a result of the type
Unmarshal(t, type) ==
    LET p == ParseObject(t)
    IN  IF ~p.ok THEN [ok |-> FALSE, value |-> Unserialisable]
        ELSE IF type = "SuccessResponse"
        THEN LET m == Field(p.value, "message", "string", <<>>)
                 s == Field(p.value, "success", "bool", FALSE)
             IN  IF m.ok /\ s.ok
                 THEN [ok |-> TRUE, value |-> SuccessResponse(m.v, s.v)]
                 ELSE [ok |-> FALSE, value |-> Unserialisable]
        ELSE IF type = "ErrorResponse"
        THEN LET e == Field(p.value, "error", "string", <<>>)
                 d == Field(p.value, "details", "string", <<>>)
             IN  IF e.ok /\ d.ok
                 THEN [ok |-> TRUE, value |-> ErrorResponse(e.v, d.v)]
                 ELSE [ok |-> FALSE, value |-> Unserialisable]
        ELSE [ok |-> FALSE, value |-> Unserialisable]

(***************************************************************************)
(* One call: of createJSONResponse itself, as TestCreateJSONResponseHelper *)
(* makes it, or of a tool handler.                                         *)
(***************************************************************************)
ResponseValues ==
    {SuccessResponse(m, b) : m \in Strings, b \in BOOLEAN}
    \cup {ErrorResponse(e, d) : e \in Strings, d \in ShortStrings}
    \cup {Unserialisable}

NoResponse == [content |-> <<>>]
ToolNames == {"deleteKubernetesResource", "getProjectDetails"}

ResponseInit ==
    /\ mode = "response"
    /\ \/ \E v \in ResponseValues :
             tstate = [pc |-> "call", tool |-> "createJSONResponse", data |-> v,
                       via |-> "none", response |-> NoResponse]
       \/ \E h \in ToolNames :
             tstate = [pc |-> "call", tool |-> h, data |-> Unserialisable,
                       via |-> "none", response |-> NoResponse]
    /\ OtherIdle

Return(via, response) ==
    tstate' = [tstate EXCEPT !.pc = "done", !.via = via, !.response = response]

TestCreateJSONResponseHelper ==
    /\ mode = "response" /\ tstate.pc = "call" /\ tstate.tool = "createJSONResponse"
    /\ Return("createJSONResponse", createJSONResponse(tstate.data))
    /\ UNCHANGED <<mode, waitVars, fstate, lstate>>

deleteKubernetesResource ==
    /\ mode = "response" /\ tstate.pc = "call" /\ tstate.tool = "deleteKubernetesResource"
    /\ \E kindOk \in BOOLEAN, argKind \in ShortStrings, argName \in ShortStrings,
          namespace \in {<<>>, <<"a">>}, err \in BOOLEAN, errText \in ShortStrings,
          code \in Codes :
          IF ~kindOk THEN Return("NewTextContent", SprintfResponse(argKind))
          ELSE IF err THEN Return("createJSONResponse", createError(errText))
          ELSE IF checkResponse(code) THEN Return("NewTextContent", SprintfResponse(<<>>))
          ELSE Return("createJSONResponse",
                      createJSONResponse(SuccessResponse(
                          argKind \o PlainText \o argName \o PlainText
                          \o (IF namespace = <<>> THEN PlainText ELSE namespace),
                          TRUE)))
    /\ UNCHANGED <<mode, waitVars, fstate, lstate>>

getProjectDetails ==
    /\ mode = "response" /\ tstate.pc = "call" /\ tstate.tool = "getProjectDetails"
    /\ \E err \in BOOLEAN, errText \in ShortStrings, code \in Codes, found \in BOOLEAN,
          id \in Digits, name \in ShortStrings :
          IF err THEN Return("createJSONResponse", createError(errText))
          ELSE IF checkResponse(code) THEN Return("NewTextContent", SprintfResponse(<<>>))
          ELSE IF ~found THEN Return("NewTextContent", SprintfResponse(<<id>>))
          ELSE Return("createJSONResponse",
                      createJSONResponse(ProjectStatusResponse(
                          id, name, PlainText, PlainText, PlainText)))
    /\ UNCHANGED <<mode, waitVars, fstate, lstate>>

ResponseNext == TestCreateJSONResponseHelper \/ deleteKubernetesResource \/ getProjectDetails

SpecResponse == ResponseInit /\ [][ResponseNext]_vars

\* the text of the first content element is a JSON object
TextIsJSON(response) ==
    /\ Len(response.content) > 0
    /\ response.content[1].type = "text"
    /\ ParseObject(response.content[1].text).ok

\* C21: on every path a tool handler returns a response made by
\* createJSONResponse whose text content is a JSON document, never plain text.
C21_AlwaysJSON ==
    (mode = "response" /\ tstate.pc = "done" /\ tstate.tool \in ToolNames)
        => (tstate.via = "createJSONResponse" /\ TextIsJSON(tstate.response))

\* the response of createJSONResponse for the value it was given decodes back to it
RoundTrips ==
    /\ TextIsJSON(tstate.response)
    /\ LET r == Unmarshal(tstate.response.content[1].text, tstate.data.type)
       IN  r.ok /\ r.value = tstate.data

CreateJSONResponseReturned ==
    mode = "response" /\ tstate.pc = "done" /\ tstate.tool = "createJSONResponse"

StringsOf(v) ==
    IF v.type = "SuccessResponse" THEN {v.message}
    ELSE IF v.type = "ErrorResponse" THEN {v.error, v.details}
    ELSE {}

\* C22, as stated: for every serialisable value createJSONResponse returns a
\* response with a non-empty content list whose first element is text content
\* that is valid JSON and decodes back to a value equal to the input.
C22_RoundTripEveryValue ==
    (CreateJSONResponseReturned /\ ~Marshal(tstate.data).err) => RoundTrips

\* C22, amended: the same for every SuccessResponse and ErrorResponse whose
\* strings are valid UTF-8 (a byte that is not valid UTF-8 is written as
\* U+FFFD and decodes to that character).
C22_RoundTripValidUTF8 ==
    (/\ CreateJSONResponseReturned /\ ~Marshal(tstate.data).err
     /\ \A s \in StringsOf(tstate.data) : ValidUTF8(s))
        => RoundTrips

C22_Witness ==
    /\ CreateJSONResponseReturned
    /\ tstate.data = SuccessResponse(<<"quote", "<">>, TRUE)
    /\ tstate.response.content[1].text =
          <<"{", "quote", "message", "quote", ":",
            "quote", "backslash", "quote", "backslash", "u003c", "quote", ",",
            "quote", "success", "quote", ":", "true", "}">>
    /\ RoundTrips


=============================================================================
